---- MODULE Spec2Model ----
(***************************************************************************)
(* State-machine model of the PDF question-answering service:              *)
(*   app/routes/upload.py  (upload_pdfs, delete_file, reset_index)         *)
(*   app/routes/chat.py    (chat, get_memory)                              *)
(*   app/services/pinecone_store.py, app/services/storage/s3_storage.py    *)
(*   app/services/rag_pipeline.py  (RAGPipeline.ask: citation names)       *)
(*   app/services/retriever.py  (RetrieverFactory.get_hybrid_retriever)    *)
(*   frontend/app.py, frontend/components/chat_interface.py  (sessions)    *)
(* Text is a sequence of one-character strings, so that lower(), split()   *)
(* and the substring test are computed, not assumed.  Similarity scores    *)
(* are in tenths (7 stands for 0.7).                                       *)
(***************************************************************************)
EXTENDS Integers, Sequences, FiniteSets, TLC

\* ------------------------------------------------------------------ bounds
MaxKeys == 2      \* storage keys (uuid4 object names) handed out in a run
MaxBatch == 2     \* files in one upload request
MaxTurns == 1     \* exchanges saved to session memories in a run
MaxHistory == 6   \* exchanges saved to session memories in a long conversation
MaxTasks == 2     \* chat requests in flight on the event loop
MaxClock == 2     \* seconds on the frontend's clock
MaxSubmits == 1   \* answered messages in the frontend's chat sessions

\* ------------------------------------------------------- program constants
TopK == 3             \* chat.py: query(top_k=3)
ScoreThreshold == 7   \* chat.py: match.score > 0.7
WindowK == 5          \* chat.py: ConversationBufferWindowMemory(k=5)

NOT_FOUND == "I could not find any relevant information in the uploaded documents."
GENERATED == "generated answer"

\* --------------------------------------------------------- input universes
Sessions == {"default", "s2"}
Scores == {7, 8}

Q1 == <<"B", " ", " ", "a">>
Q2 == <<"d">>
Queries == {Q1, Q2}

FA == [name |-> "a.pdf", ext |-> "pdf", chunks |-> << <<"A", "B">> >>]
FB == [name |-> "b.pdf", ext |-> "pdf", chunks |-> << <<"c">> >>]
FE == [name |-> "e.pdf", ext |-> "pdf", chunks |-> << >>]
FN == [name |-> "n.txt", ext |-> "txt", chunks |-> << <<"a">> >>]
Files == {FA, FB, FE, FN}

Batches == UNION {[1..n -> Files] : n \in 1..MaxBatch}

\* ------------------------------------------------------------ text helpers
\* str.lower() on one character
Lower(c) == CASE c = "A" -> "a" [] c = "B" -> "b" [] c = "C" -> "c"
              [] c = "D" -> "d" [] OTHER -> c

\* str.lower()
LowerStr(s) == [i \in DOMAIN s |-> Lower(s[i])]

\* str.split() with no argument: runs of whitespace separate the words and
\* no empty word is produced
RECURSIVE SplitFrom(_, _, _)
SplitFrom(s, i, cur) ==
    IF i > Len(s)
    THEN IF cur = << >> THEN << >> ELSE <<cur>>
    ELSE IF s[i] = " "
         THEN (IF cur = << >> THEN << >> ELSE <<cur>>) \o SplitFrom(s, i + 1, << >>)
         ELSE SplitFrom(s, i + 1, Append(cur, s[i]))

Split(s) == SplitFrom(s, 1, << >>)

\* Python's "kw in text" on strings
Contains(kw, text) ==
    \E i \in 0..(Len(text) - Len(kw)) : SubSeq(text, i + 1, i + Len(kw)) = kw

\* chat.py line 113
query_keywords(query_text) == Split(LowerStr(query_text))

\* chat.py lines 112-116: sum(1 for keyword in query_keywords if keyword in text)
keyword_matches(query_text, text) ==
    LET kws == query_keywords(query_text)
    IN  Cardinality({i \in DOMAIN kws : Contains(kws[i], LowerStr(text))})

\* variant of Include: a score of exactly 0.7 passes
IncludeLaxThreshold(query_text, match) ==
    keyword_matches(query_text, match.text) > 0 \/ match.score >= ScoreThreshold

\* variant of Include: the score is ignored
IncludeKeywordOnly(query_text, match) ==
    keyword_matches(query_text, match.text) > 0

\* chat.py line 117: the inclusion rule for one match
Include(query_text, match) ==
    keyword_matches(query_text, match.text) > 0 \/ match.score > ScoreThreshold

\* chat.py lines 105-123: the matches that pass the inclusion rule, in
\* retrieval order (retrieved_contexts and the unsorted sources)
Retrieved(query_text, matches) ==
    SelectSeq(matches, LAMBDA m : Include(query_text, m))

\* chat.py lines 118 and 131: retrieved_contexts, the texts joined into the
\* context of the prompt, in retrieval order
RetrievedContexts(query_text, matches) ==
    LET kept == Retrieved(query_text, matches)
    IN  [i \in DOMAIN kept |-> kept[i].text]

\* variant of InsertDesc: of two sources with equal counts the one retrieved
\* later comes first
RECURSIVE InsertDescLaterFirst(_, _, _)
InsertDescLaterFirst(query_text, m, sorted) ==
    IF sorted = << >> THEN <<m>>
    ELSE IF keyword_matches(query_text, Head(sorted).text)
              >= keyword_matches(query_text, m.text)
         THEN <<Head(sorted)>> \o InsertDescLaterFirst(query_text, m, Tail(sorted))
         ELSE <<m>> \o sorted

\* sorted(..., key=count, reverse=True): Python's sort is stable, also with
\* reverse=True, so equal counts keep their incoming order.  m precedes
\* every element of sorted in the incoming order.
RECURSIVE InsertDesc(_, _, _)
InsertDesc(query_text, m, sorted) ==
    IF sorted = << >> THEN <<m>>
    ELSE IF keyword_matches(query_text, Head(sorted).text)
              > keyword_matches(query_text, m.text)
         THEN <<Head(sorted)>> \o InsertDesc(query_text, m, Tail(sorted))
         ELSE <<m>> \o sorted

RECURSIVE SortedSources(_, _)
SortedSources(query_text, srcs) ==
    IF srcs = << >> THEN << >>
    ELSE InsertDesc(query_text, Head(srcs), SortedSources(query_text, Tail(srcs)))

\* chat.py line 129: sources[:1]
CapSources(srcs) == SubSeq(srcs, 1, IF Len(srcs) < 1 THEN Len(srcs) ELSE 1)

\* chat.py lines 126-129
RankedSources(query_text, matches) ==
    CapSources(SortedSources(query_text, Retrieved(query_text, matches)))

\* ---------------------------------------------------------- citation names
PrefixLen == 32   \* rag_pipeline.py: len(pdf_name.split('_')[0]) == 32

\* metadata.get(key, default): a key the document does not have is Absent
Absent == <<"(absent)">>
Get(metadata, key, default) ==
    IF metadata[key] = Absent THEN default ELSE metadata[key]

NoMetadata ==
    [pdf_name |-> Absent, original_filename |-> Absent, source |-> Absent,
     file_path |-> Absent]

Unknown == <<"U", "n", "k", "n", "o", "w", "n">>
UnknownDocument ==
    <<"U", "n", "k", "n", "o", "w", "n", " ", "D", "o", "c", "u", "m", "e", "n", "t">>

\* str.split(sep): the pieces between the separators, empty ones included
RECURSIVE SplitOnFrom(_, _, _, _)
SplitOnFrom(s, sep, i, cur) ==
    IF i > Len(s) THEN <<cur>>
    ELSE IF s[i] = sep
         THEN <<cur>> \o SplitOnFrom(s, sep, i + 1, << >>)
         ELSE SplitOnFrom(s, sep, i + 1, Append(cur, s[i]))

SplitOn(s, sep) == SplitOnFrom(s, sep, 1, << >>)

\* sep.join(pieces)
RECURSIVE JoinWith(_, _)
JoinWith(pieces, sep) ==
    IF pieces = << >> THEN << >>
    ELSE IF Len(pieces) = 1 THEN pieces[1]
    ELSE pieces[1] \o <<sep>> \o JoinWith(Tail(pieces), sep)

\* pdf_name.split('/')[-1] and os.path.basename(file_path)
Basename(path) ==
    LET pieces == SplitOn(path, "/")
    IN  pieces[Len(pieces)]

\* rag_pipeline.py lines 123-124 and 131-132: "Remove UUID prefix if present"
StripPrefix(name) ==
    IF (\E i \in DOMAIN name : name[i] = "_")
         /\ Len(SplitOn(name, "_")[1]) = PrefixLen
    THEN JoinWith(Tail(SplitOn(name, "_")), "_")
    ELSE name

\* rag_pipeline.py lines 114, 117, 127, 135: not pdf_name or pdf_name == 'Unknown'
Unresolved(name) == name = << >> \/ name = Unknown

\* rag_pipeline.py lines 112-136: the document name of a citation
PdfNameOf(metadata) ==
    LET n1 == Get(metadata, "pdf_name", Unknown)
        n2 == IF Unresolved(n1) THEN Get(metadata, "original_filename", Unknown)
              ELSE n1
        src == Get(metadata, "source", Unknown)
        n3 == IF ~Unresolved(n2) THEN n2
              ELSE IF src # << >> /\ (\E i \in DOMAIN src : src[i] = "/")
                   THEN StripPrefix(Basename(src))
                   ELSE src
        file_path == Get(metadata, "file_path", << >>)
        n4 == IF Unresolved(n3) /\ file_path # << >>
              THEN StripPrefix(Basename(file_path))
              ELSE n3
    IN  IF Unresolved(n4) THEN UnknownDocument ELSE n4

\* -------------------------------------------------- requests in flight
\* the chat requests the event loop has accepted
Tasks == 1..MaxTasks

\* chat.py lines 46 and 78: no session has a memory object and no request
\* has arrived.  store maps a session id to its memory object (0: the key is
\* absent), heap holds the messages of each object created so far, memory is
\* the object a request got from get_memory, running the request that holds
\* the event loop (0: none).
NoRequests ==
    [pc |-> [t \in Tasks |-> "idle"],
     sid |-> [t \in Tasks |-> ""],
     memory |-> [t \in Tasks |-> 0],
     store |-> [s \in Sessions |-> 0],
     heap |-> << >>,
     running |-> 0]

\* ------------------------------------------------- frontend session state
\* app.py line 73: the id of the first chat session
DefaultId == [prefix |-> "default", stamp |-> 0]

\* app.py line 147: the id of a new chat session, the clock to the second
SessionId(now) == [prefix |-> "session", stamp |-> now]

\* app.py lines 70-79: st.session_state after the first run of the script.
\* chat_sessions keeps the insertion order of the dict; last is the action
\* the last run of the script handled.
InitialSessionState ==
    [chat_sessions |-> <<[id |-> DefaultId, messages |-> << >>]>>,
     current_session_id |-> DefaultId,
     now |-> 0,
     last |-> [op |-> "init", ok |-> FALSE, before |-> << >>]]

\* ------------------------------------------------------------------- state
VARIABLES
    blobs,         \* keys of the objects in the S3 bucket under the prefix
    next_key,      \* number of the next fresh object key (uuid4 in _key_for)
    vectors,       \* records of the Pinecone index, namespace "default"
    memory_store,  \* chat.py memory_store: session id -> saved exchanges
    resp,          \* the last request and what it returned
    conc,          \* chat requests in flight on the server's event loop
    ui             \* the frontend's st.session_state (one browser session)

vars == <<blobs, next_key, vectors, memory_store, resp, conc, ui>>

BlankResp ==
    [op |-> "none", status |-> 0, success |-> FALSE, key |-> 0,
     confirm |-> FALSE, sid |-> "", query |-> << >>, matches |-> << >>, contexts |-> << >>,
     sources |-> << >>, history |-> << >>, llm_calls |-> 0, answer |-> "",
     embed_calls |-> 0, search_calls |-> 0, retriever_type |-> "",
     metadata |-> NoMetadata, pdf_name |-> << >>,
     n_files |-> 0, n_vectors |-> 0, errors |-> {},
     s3_operation |-> "", pinecone_operation |-> "",
     documents |-> << >>, k |-> 0, faults |-> {}, retriever |-> "none",
     temp_files |-> {}]

Init ==
    /\ blobs = {}
    /\ next_key = 1
    /\ vectors = {}
    /\ memory_store = [s \in Sessions |-> << >>]
    /\ resp = BlankResp
    /\ conc = NoRequests
    /\ ui = InitialSessionState

\* elements of a sequence
Range(f) == {f[i] : i \in DOMAIN f}

\* ------------------------------------------------------------------ upload
\* upload.py line 35
IsPdf(file) == file.ext = "pdf"

\* a page_number metadata value: a number (its decimal digits), a text, or
\* no value at all
PageNumber(digits) == [kind |-> "number", digits |-> digits]
PageText(chars) == [kind |-> "text", digits |-> chars]
PageMissing == [kind |-> "missing", digits |-> << >>]

\* upload.py line 81: the page index PyPDFLoader puts on every page; the
\* documents of the model have one page
LoaderPage == PageNumber(<<"0">>)

\* upload.py lines 78-82: the metadata put on the chunks of one file
ChunksOf(file, s3_key) ==
    {[s3_key |-> s3_key, file_name |-> file.name, chunk_id |-> i - 1,
      text |-> file.chunks[i], page_number |-> LoaderPage] :
       i \in DOMAIN file.chunks}

\* upload.py lines 34-91: the loop over the files of the request, from file
\* i on.  s3_fail_at is the position of the file whose save_upload raises
\* (0: none does).  The result is the error (if any), the objects written
\* to the bucket, the chunks collected so far, and the positions of the
\* files whose temporary file (lines 43-45, created with delete=False) is
\* still on disk: line 88 unlinks it at the end of the iteration, which an
\* exception raised after line 45 does not reach.
RECURSIVE ProcessFiles(_, _, _, _, _, _)
ProcessFiles(files, i, key, s3_fail_at, saved, chunks) ==
    IF i > Len(files)
    THEN [error |-> "", saved |-> saved, chunks |-> chunks, key |-> key,
          temp_files |-> {}]
    ELSE IF ~IsPdf(files[i])
    THEN [error |-> "not a PDF file", saved |-> saved, chunks |-> chunks, key |-> key,
          temp_files |-> {}]
    ELSE IF files[i].chunks = << >>
    THEN [error |-> "No text found", saved |-> saved, chunks |-> chunks, key |-> key,
          temp_files |-> {i}]
    ELSE IF s3_fail_at = i
    THEN [error |-> "save_upload failed", saved |-> saved, chunks |-> chunks, key |-> key,
          temp_files |-> {i}]
    ELSE ProcessFiles(files, i + 1, key + 1, s3_fail_at,
                      saved \cup {key}, chunks \cup ChunksOf(files[i], key))

\* the collaborator of an upload that fails: none; save_upload for the file
\* at position at; the missing GOOGLE_API_KEY; save_documents
UploadFaults(files) ==
    {[stage |-> st, at |-> 0] : st \in {"none", "key", "save"}}
        \cup {[stage |-> "s3", at |-> i] : i \in 1..Len(files)}

\* upload.py lines 20-120
\* Every exception, the HTTPException(400) of lines 37 and 58 included, is
\* caught at line 118 and answered with status 500.
UploadPdfs(files, fault) ==
    LET r == ProcessFiles(files, 1, next_key, fault.at, {}, {})
        error == IF r.error # "" THEN r.error
                 ELSE IF fault.stage = "key" THEN "Google API key not configured."
                 ELSE IF fault.stage = "save" THEN "save_documents failed"
                 ELSE ""
    IN  /\ next_key + Len(files) - 1 <= MaxKeys
        /\ blobs' = blobs \cup r.saved
        /\ next_key' = r.key
        /\ vectors' = IF error = "" THEN vectors \cup r.chunks ELSE vectors
        /\ resp' = [BlankResp EXCEPT !.op = "upload",
                       !.status = IF error = "" THEN 200 ELSE 500,
                       !.success = (error = ""),
                       !.errors = IF error = "" THEN {} ELSE {error},
                       !.n_files = IF error = "" THEN Len(files) ELSE 0,
                       !.n_vectors = IF error = "" THEN Cardinality(r.chunks) ELSE 0,
                       !.temp_files = r.temp_files]
        /\ UNCHANGED <<memory_store, conc, ui>>

Upload ==
    \E files \in Batches :
        \E fault \in UploadFaults(files) :
            UploadPdfs(files, fault)

\* ------------------------------------------------------------------ delete
\* pinecone_store.py: the methods the class PineconeVectorStoreHandler defines
PineconeMethods ==
    {"_ensure_index_exists", "save_documents", "load_vectorstore",
     "get_retriever", "test_similarity_search", "delete_all", "get_stats",
     "delete_all_vectors", "save_vectors"}

\* variant of DeleteVectorsStep: a step that raises empties the index
DeleteVectorsWipeOnError(vs, key, pc_fails) ==
    IF pc_fails \/ "delete_vectors_by_metadata" \notin PineconeMethods
    THEN [raised |-> TRUE, vectors |-> {}]
    ELSE [raised |-> FALSE, vectors |-> {v \in vs : v.s3_key # key}]

\* upload.py lines 163-170: the vector step of a delete.  The handler is
\* constructed (pc_fails: the constructor raises) and its method
\* delete_vectors_by_metadata is looked up; a method the class does not define
\* raises AttributeError before anything is sent to the index.  Every
\* exception of the step is caught and logged.
DeleteVectorsStep(vs, key, pc_fails) ==
    IF pc_fails \/ "delete_vectors_by_metadata" \notin PineconeMethods
    THEN [raised |-> TRUE, vectors |-> vs]
    ELSE [raised |-> FALSE, vectors |-> {v \in vs : v.s3_key # key}]

\* variant of DeleteResult: an exception of the vector step reaches the
\* outer except
DeleteResultVectorFatal(s3_raised, vec_raised) ==
    IF s3_raised \/ vec_raised
    THEN [status |-> 500, success |-> FALSE]
    ELSE [status |-> 200, success |-> TRUE]

\* upload.py lines 153-184: what the request returns, from which step raised
DeleteResult(s3_raised, vec_raised) ==
    IF s3_raised
    THEN [status |-> 500, success |-> FALSE]
    ELSE [status |-> 200, success |-> TRUE]

\* variant of MemoryAfterDeletion: deleting documents forgets every
\* conversation
MemoryAfterDeletionCleared(store) == [s \in DOMAIN store |-> << >>]

\* upload.py lines 145-258: delete_file and reset_index work on the bucket
\* and the index only; upload.py has no reference to chat.py's memory_store
MemoryAfterDeletion(store) == store

\* upload.py lines 145-184
DeleteFile(key, s3_fails, pc_fails) ==
    LET step == DeleteVectorsStep(vectors, key, pc_fails)
        vec_raised == ~s3_fails /\ step.raised
        result == DeleteResult(s3_fails, vec_raised)
    IN  /\ blobs' = IF s3_fails THEN blobs ELSE blobs \ {key}
        /\ vectors' = IF s3_fails THEN vectors ELSE step.vectors
        /\ resp' = [BlankResp EXCEPT !.op = "delete", !.key = key,
                       !.status = result.status, !.success = result.success,
                       !.errors = (IF s3_fails THEN {"s3"} ELSE {})
                                  \cup (IF vec_raised THEN {"pinecone"} ELSE {})]
        /\ memory_store' = MemoryAfterDeletion(memory_store)
        /\ UNCHANGED <<next_key, conc, ui>>

Delete ==
    \E key \in 1..MaxKeys, s3_fails, pc_fails \in BOOLEAN :
        DeleteFile(key, s3_fails, pc_fails)

\* ------------------------------------------------------------------- reset
\* variant of ResetRefused: the confirm flag is not looked at
ResetRefusedNever(confirm) == FALSE

\* upload.py lines 198-203: the request is refused unless confirm is true
ResetRefused(confirm) == ~confirm

\* upload.py lines 249-250: the status of a step in details, computed from
\* the count the response reports for it
OperationStatus(count) == IF count >= 0 THEN "completed" ELSE "failed"

\* variant of ResetOutcome: an exception of the blob step ends the request
ResetOutcomeFirstErrorFatal(n_deleted, n_indexed, s3_raises, pc_raises) ==
    IF s3_raises
    THEN [status |-> 500, success |-> FALSE, errors |-> {"s3"},
          n_files |-> 0, n_vectors |-> 0, vector_step |-> FALSE,
          s3_operation |-> "", pinecone_operation |-> ""]
    ELSE [status |-> 200, success |-> ~pc_raises,
          errors |-> IF pc_raises THEN {"pinecone"} ELSE {},
          n_files |-> n_deleted,
          n_vectors |-> IF pc_raises THEN 0 ELSE n_indexed, vector_step |-> TRUE,
          s3_operation |-> OperationStatus(n_deleted),
          pinecone_operation |-> OperationStatus(IF pc_raises THEN 0 ELSE n_indexed)]

\* upload.py lines 207-254: the two steps of a confirmed reset, each in its
\* own try, and the response built from them.  n_deleted is the count
\* delete_all_files returns and n_indexed the one delete_all_vectors returns;
\* a step that raises leaves its count at 0 and its message in errors.
\* vector_step tells whether the vector step was attempted.
ResetOutcome(n_deleted, n_indexed, s3_raises, pc_raises) ==
    [status |-> 200, success |-> ~s3_raises /\ ~pc_raises,
     errors |-> (IF s3_raises THEN {"s3"} ELSE {})
                \cup (IF pc_raises THEN {"pinecone"} ELSE {}),
     n_files |-> IF s3_raises THEN 0 ELSE n_deleted,
     n_vectors |-> IF pc_raises THEN 0 ELSE n_indexed, vector_step |-> TRUE,
     s3_operation |-> OperationStatus(IF s3_raises THEN 0 ELSE n_deleted),
     pinecone_operation |-> OperationStatus(IF pc_raises THEN 0 ELSE n_indexed)]

\* upload.py lines 189-258.  deleted is the set of objects delete_all_files
\* removed before it returned or raised (s3_raises); objects it lists and
\* fails to delete are only logged.
ResetIndex(confirm, deleted, s3_raises, pc_raises) ==
    IF ResetRefused(confirm)
    THEN /\ resp' = [BlankResp EXCEPT !.op = "reset", !.confirm = confirm,
                                      !.status = 400]
         /\ UNCHANGED <<blobs, next_key, vectors, memory_store, conc, ui>>
    ELSE LET out == ResetOutcome(Cardinality(deleted), Cardinality(vectors),
                                 s3_raises, pc_raises)
         IN  /\ blobs' = blobs \ deleted
             /\ vectors' = IF out.vector_step /\ ~pc_raises THEN {} ELSE vectors
             /\ resp' = [BlankResp EXCEPT !.op = "reset", !.confirm = confirm,
                            !.status = out.status,
                            !.success = out.success, !.errors = out.errors,
                            !.n_files = out.n_files,
                            !.n_vectors = out.n_vectors,
                            !.s3_operation = out.s3_operation,
                            !.pinecone_operation = out.pinecone_operation]
             /\ memory_store' = MemoryAfterDeletion(memory_store)
             /\ UNCHANGED <<next_key, conc, ui>>

Reset ==
    \E confirm, s3_raises, pc_raises \in BOOLEAN, deleted \in SUBSET blobs :
        ResetIndex(confirm, deleted, s3_raises, pc_raises)

\* -------------------------------------------------------------------- chat
Min(a, b) == IF a < b THEN a ELSE b

\* chat.py lines 92-97: the answers the index can give to a top_k query: the
\* TopK nearest records (all of them when there are fewer), each once, by
\* non-increasing score.  The scores come from the embedding provider: they
\* are any function of the query and of the text of the record.
SearchResults(vs) ==
    LET n == Min(TopK, Cardinality(vs))
    IN  {[i \in 1..n |->
            [s3_key |-> p[1][i].s3_key, file_name |-> p[1][i].file_name,
             chunk_id |-> p[1][i].chunk_id, text |-> p[1][i].text,
             page_number |-> p[1][i].page_number,
             score |-> p[2][i]]] :
           p \in {q \in [1..n -> vs] \X [1..n -> Scores] :
                    /\ \A i, j \in 1..n : i # j => q[1][i] # q[1][j]
                    /\ \A i \in 1..(n - 1) : q[2][i] >= q[2][i + 1]
                    /\ \A i, j \in 1..n :
                          q[1][i].text = q[1][j].text => q[2][i] = q[2][j]}}

\* chat.py lines 48-55: the memory of a session, an empty buffer when the
\* session has none yet (a missing entry and an empty buffer are not told
\* apart here)
get_memory(store, session_id) == store[session_id]

RECURSIVE SumLen(_, _)
SumLen(store, ss) ==
    IF ss = {} THEN 0
    ELSE LET s == CHOOSE x \in ss : TRUE
         IN  Len(store[s]) + SumLen(store, ss \ {s})

\* variant of Buffer: the window keeps the first k exchanges
BufferOldest(turns) ==
    SubSeq(turns, 1, IF Len(turns) > WindowK THEN WindowK ELSE Len(turns))

\* ConversationBufferWindowMemory(k=5).buffer_as_str: the last k exchanges
Buffer(turns) ==
    SubSeq(turns, IF Len(turns) > WindowK THEN Len(turns) - WindowK + 1 ELSE 1,
           Len(turns))

\* memory.save_context(inputs, outputs)
save_context(store, session_id, input, output) ==
    [store EXCEPT ![session_id] = Append(@, [input |-> input, output |-> output])]

\* the collaborator of a chat request that raises: none; embed_query (line
\* 89); the index query (line 92); the generation call of chain.invoke (line
\* 146), after which the LLMChain of lines 150-159 returns ("chain"), raises
\* in its own generation call ("chain_and_fallback") or raises before it
\* reaches the generator ("chain_and_inputs"); memory.save_context (line 101)
ChatFaults ==
    {"none", "embed", "search", "chain", "chain_and_fallback", "chain_and_inputs",
     "memory"}

\* variant of ShortCircuit: an empty result goes on to generation
ShortCircuitNever(matches) == FALSE

\* chat.py line 99: the short circuit to the fixed answer
ShortCircuit(matches) == matches = << >>

Digits == {"0", "1", "2", "3", "4", "5", "6", "7", "8", "9"}

\* chat.py lines 27-30: the validation of Source.page_number, declared int:
\* a number or a text of decimal digits is accepted, None and any other text
\* raise ValidationError
IsIntLike(page) ==
    /\ page.kind # "missing"
    /\ page.digits # << >>
    /\ \A i \in DOMAIN page.digits : page.digits[i] \in Digits

\* chat.py lines 109-123: building the Source of a match that passes the
\* inclusion rule raises when its page number does not validate
SourceRaises(query_text, matches) ==
    \E i \in DOMAIN matches :
        ~IsIntLike(matches[i].page_number) /\ Include(query_text, matches[i])

\* what raises first in a request: the failing collaborator, or the Source
\* of lines 119-123 ("page_number") when the search returned matches
RaisedIn(query_text, fault, matches) ==
    IF fault \in {"embed", "search"} \/ ShortCircuit(matches) THEN fault
    ELSE IF SourceRaises(query_text, matches) THEN "page_number"
    ELSE fault

\* the ways a chat request can go: "error" (an exception reached the except of
\* line 163), "not_found" (lines 99-102), "chain" (lines 136-146 returned),
\* "fallback" (lines 147-159: the chain raised and the LLMChain returned)
ChatPath(fault, matches) ==
    IF fault \in {"embed", "search"} THEN "error"
    ELSE IF ShortCircuit(matches)
         THEN (IF fault = "memory" THEN "error" ELSE "not_found")
    ELSE IF fault \in {"none", "memory"} THEN "chain"
    ELSE IF fault = "chain" THEN "fallback"
    ELSE "error"

\* variant of MemoryAfter: the exchange is saved on every path
MemoryAfterSaveAlways(store, session_id, path, input, output) ==
    save_context(store, session_id, input, output)

\* chat.py lines 101 and 150-159: the memory after a request that took the
\* given path.  Line 101 saves the exchange; the chain of lines 136-146 never
\* writes to the memory; the LLMChain of line 150 is built with memory=memory
\* and saves the exchange when it returns.
MemoryAfter(store, session_id, path, input, output) ==
    IF path \in {"not_found", "fallback"}
    THEN save_context(store, session_id, input, output)
    ELSE store

\* chat.py lines 101-102 and 161: the answer of a request that took the
\* given path
ChatAnswer(path) ==
    CASE path = "not_found" -> NOT_FOUND
      [] path \in {"chain", "fallback"} -> GENERATED
      [] OTHER -> ""

\* chat.py lines 79-165: what the handler does and returns for a parsed
\* request, with the calls it made to the embedding provider (line 89), to
\* the index (line 92) and to the text generator (lines 146 and 156)
ChatResult(session_id, query_text, fault, matches) ==
    LET base == [BlankResp EXCEPT !.op = "chat", !.sid = session_id,
                                  !.query = query_text]
        memory == get_memory(memory_store, session_id)
        raised == RaisedIn(query_text, fault, matches)
        path == ChatPath(raised, matches)
        searched == fault \notin {"embed", "search"}
        prompted == searched /\ ~ShortCircuit(matches) /\ raised # "page_number"
    IN  [base EXCEPT
           !.status = IF path = "error" THEN 500 ELSE 200,
           !.success = (path # "error"),
           !.answer = ChatAnswer(path),
           !.matches = IF searched THEN matches ELSE << >>,
           !.contexts = IF prompted THEN RetrievedContexts(query_text, matches)
                        ELSE << >>,
           !.sources = IF path \in {"chain", "fallback"}
                       THEN RankedSources(query_text, matches) ELSE << >>,
           !.history = IF prompted THEN Buffer(memory) ELSE << >>,
           !.embed_calls = 1,
           !.search_calls = IF fault = "embed" THEN 0 ELSE 1,
           !.llm_calls = IF ~prompted THEN 0
                         ELSE IF fault \in {"none", "memory", "chain_and_inputs"} THEN 1
                         ELSE 2,
           !.errors = IF path = "error" THEN {raised} ELSE {}]

\* chat.py lines 77-165: the handler of POST /chat
ChatHandler(session_id, query_text, fault, matches) ==
    LET path == ChatPath(RaisedIn(query_text, fault, matches), matches)
    IN  /\ memory_store' = MemoryAfter(memory_store, session_id, path,
                                       query_text, ChatAnswer(path))
        /\ resp' = ChatResult(session_id, query_text, fault, matches)
        /\ UNCHANGED <<blobs, next_key, vectors, conc, ui>>

\* a chat request of a run in which at most MaxTurns exchanges are saved
ChatRequest(session_id, query_text, fault, matches) ==
    /\ ChatHandler(session_id, query_text, fault, matches)
    /\ SumLen(memory_store', Sessions) <= MaxTurns

Chat ==
    \/ \E session_id \in Sessions, query_text \in Queries, fault \in {"embed", "search"} :
            ChatRequest(session_id, query_text, fault, << >>)
    \/ \E matches \in SearchResults(vectors) :
         \E session_id \in Sessions, query_text \in Queries,
            fault \in ChatFaults \ {"embed", "search"} :
            ChatRequest(session_id, query_text, fault, matches)

\* ---------------------------------------------------------- specifications
\* the whole service
Next == Upload \/ Delete \/ Reset \/ Chat

Spec == Init /\ [][Next]_vars

\* the ingestion and administration endpoints alone
NextAdmin == Upload \/ Delete \/ Reset

SpecAdmin == Init /\ [][NextAdmin]_vars

\* the chat endpoint alone, over an index filled by earlier uploads: no
\* upload yet; a.pdf; a.pdf and b.pdf; a.pdf, b.pdf and a.pdf once more
SampleUploads == {<< >>, <<FA>>, <<FA, FB>>, <<FA, FB, FA>>}

InitChat ==
    \E files \in SampleUploads :
        /\ blobs = DOMAIN files
        /\ next_key = Len(files) + 1
        /\ vectors = UNION {ChunksOf(files[k], k) : k \in DOMAIN files}
        /\ memory_store = [s \in Sessions |-> << >>]
        /\ resp = BlankResp
        /\ conc = NoRequests
        /\ ui = InitialSessionState

NextChat == Chat

SpecChat == InitChat /\ [][NextChat]_vars

\* the chat endpoint in a long conversation: the index holds nothing or
\* a.pdf, and the session "default" has already saved up to MaxHistory
\* exchanges (the two queries in turn), each answered with the fixed answer
\* of line 101
Histories ==
    {[i \in 1..n |-> [input |-> IF i % 2 = 1 THEN Q1 ELSE Q2, output |-> NOT_FOUND]] :
       n \in 0..MaxHistory}

InitWindow ==
    \E files \in {<< >>, <<FA>>}, past \in Histories :
        /\ blobs = DOMAIN files
        /\ next_key = Len(files) + 1
        /\ vectors = UNION {ChunksOf(files[k], k) : k \in DOMAIN files}
        /\ memory_store = [s \in Sessions |-> IF s = "default" THEN past ELSE << >>]
        /\ resp = BlankResp
        /\ conc = NoRequests
        /\ ui = InitialSessionState

ChatWindow ==
    \E matches \in SearchResults(vectors) :
        \E session_id \in Sessions, query_text \in Queries, fault \in ChatFaults :
            /\ ChatHandler(session_id, query_text, fault, matches)
            /\ SumLen(memory_store', Sessions) <= MaxHistory

NextWindow == ChatWindow

SpecWindow == InitWindow /\ [][NextWindow]_vars

\* delete and reset requests on a service whose sessions have conversations
InitDeletion ==
    \E files \in SampleUploads, past \in Histories :
        /\ blobs = DOMAIN files
        /\ next_key = Len(files) + 1
        /\ vectors = UNION {ChunksOf(files[k], k) : k \in DOMAIN files}
        /\ memory_store = [s \in Sessions |-> IF s = "default" THEN past ELSE << >>]
        /\ resp = BlankResp
        /\ conc = NoRequests
        /\ ui = InitialSessionState

NextDeletion == Delete \/ Reset

SpecDeletion == InitDeletion /\ [][NextDeletion]_vars

\* the chat endpoint from the JSON body of the request on.  A body is a
\* record of the fields the client sent; retriever_type is a field the
\* request model of app/models/chat.py declares and the one of the route
\* does not.
Bodies ==
    {[query |-> q] : q \in Queries}
      \cup {[query |-> q, session_id |-> "s2"] : q \in Queries}
      \cup {[query |-> q, retriever_type |-> r] :
              q \in Queries, r \in {"hybrid", "bogus"}}
      \cup {[session_id |-> "s2", retriever_type |-> r] : r \in {"hybrid", "bogus"}}

\* chat.py lines 22-24: the request model of the route (pydantic BaseModel).
\* query is required, session_id defaults to "default", and a field the
\* model does not declare is ignored.
ParseChatRequest(body) ==
    IF "query" \notin DOMAIN body
    THEN [ok |-> FALSE, query |-> << >>, session_id |-> ""]
    ELSE [ok |-> TRUE, query |-> body.query,
          session_id |-> IF "session_id" \in DOMAIN body THEN body.session_id
                         ELSE "default"]

\* chat.py lines 77-78: FastAPI validates the body against ChatRequest and
\* answers 422 without calling the handler when it does not validate;
\* otherwise the handler runs on the parsed request.  resp.retriever_type
\* records the retriever type the body named ("" when it named none).
ChatPost(body, fault, matches) ==
    LET request == ParseChatRequest(body)
        named == IF "retriever_type" \in DOMAIN body THEN body.retriever_type ELSE ""
        path == ChatPath(RaisedIn(request.query, fault, matches), matches)
    IN  IF ~request.ok
        THEN /\ resp' = [BlankResp EXCEPT !.op = "chat", !.status = 422,
                                          !.retriever_type = named]
             /\ UNCHANGED <<blobs, next_key, vectors, memory_store, conc, ui>>
        ELSE /\ memory_store' = MemoryAfter(memory_store, request.session_id, path,
                                            request.query, ChatAnswer(path))
             /\ SumLen(memory_store', Sessions) <= MaxTurns
             /\ resp' = [ChatResult(request.session_id, request.query, fault, matches)
                           EXCEPT !.retriever_type = named]
             /\ UNCHANGED <<blobs, next_key, vectors, conc, ui>>

NextPost ==
    \E matches \in SearchResults(vectors) :
        \E body \in Bodies, fault \in ChatFaults :
            ChatPost(body, fault, matches)

SpecPost == InitChat /\ [][NextPost]_vars

\* the citation step of RAGPipeline.ask on one source document.  The
\* metadata are drawn from: a 32-character hexadecimal token (uuid4().hex),
\* a 32-character token that is not hexadecimal, paths with and without a
\* directory, names that are empty or 'Unknown'.
Hex32 == [i \in 1..PrefixLen |-> IF i % 2 = 1 THEN "a" ELSE "1"]
Word32 == [i \in 1..PrefixLen |-> "z"]

Paths ==
    {Absent, << >>,
     <<"d", "/">> \o Hex32 \o <<"_", "r", "_", "x">>,
     <<"d", "/">> \o Word32 \o <<"_", "r">>,
     Hex32 \o <<"_", "r">>,
     <<"d", "/">>,
     <<"d", "/">> \o Unknown,
     <<"d", "/">> \o Hex32 \o <<"_">>,
     <<"d", "/", "s", "_", "t">>}

Metadatas ==
    [pdf_name : {Absent, << >>, Unknown, <<"p">>},
     original_filename : {Absent, Unknown, <<"o">>},
     source : Paths,
     file_path : Paths]

\* rag_pipeline.py lines 107-163
Cite ==
    \E metadata \in Metadatas :
        /\ resp' = [BlankResp EXCEPT !.op = "cite", !.metadata = metadata,
                                     !.pdf_name = PdfNameOf(metadata)]
        /\ UNCHANGED <<blobs, next_key, vectors, memory_store, conc, ui>>

NextCite == Cite

SpecCite == Init /\ [][NextCite]_vars

\* the chat endpoint over an index that holds the chunk of a.pdf and a
\* record of b.pdf written with the metadata of its chunk as they were
\* (save_vectors): without a page number, or with one that is a text
ForeignPages == {PageMissing, PageText(<<"x">>), PageText(<<"7">>)}

InitPage ==
    \E page \in ForeignPages :
        /\ blobs = {1, 2}
        /\ next_key = 3
        /\ vectors = ChunksOf(FA, 1)
                       \cup {[s3_key |-> 2, file_name |-> FB.name, chunk_id |-> 0,
                              text |-> FB.chunks[1], page_number |-> page]}
        /\ memory_store = [s \in Sessions |-> << >>]
        /\ resp = BlankResp
        /\ conc = NoRequests
        /\ ui = InitialSessionState

NextPage == Chat

SpecPage == InitPage /\ [][NextPage]_vars

\* --------------------------------------------------- concurrent requests
\* chat.py lines 48-55, 89-101 and 156: the steps of one chat request that
\* touch memory_store or a memory object, in program order
Positions ==
    {"check", "create", "fetch", "embed", "search", "save_input", "save_output"}

\* variant of AwaitPoints: the handler can be suspended after every step
AwaitPointsEverywhere == Positions

\* chat.py lines 78-165: the positions after which the coroutine hands the
\* event loop to another request.  chat is an async def whose body has no
\* await (embed_query, Index.query and chain.run are blocking calls).
AwaitPoints == {}

\* the request arrives with the session id of its body and waits for the loop
Arrive(t, session_id) ==
    /\ conc.pc[t] = "idle"
    /\ conc' = [conc EXCEPT !.pc[t] = "check", !.sid[t] = session_id]
    /\ UNCHANGED <<blobs, next_key, vectors, memory_store, resp, ui>>

\* one step of request t.  ok tells whether the call of the step returns or
\* raises (line 163 then ends the request without a memory write).
\*   check       line 50: session_id not in memory_store
\*   create      lines 51-54: memory_store[session_id] = a new memory object
\*   fetch       line 55: return memory_store[session_id]
\*   embed       line 89;  search  lines 92-97
\*   save_input, save_output   lines 101 and 156: save_context appends the
\*               human message and then the ai message to the object
HandlerStep(c, t, ok) ==
    LET s == c.sid[t]
        p == c.pc[t]
        m == c.memory[t]
    IN  IF p = "check"
        THEN [c EXCEPT !.pc[t] = IF c.store[s] = 0 THEN "create" ELSE "fetch"]
        ELSE IF p = "create"
        THEN [c EXCEPT !.heap = Append(c.heap, << >>),
                       !.store[s] = Len(c.heap) + 1,
                       !.pc[t] = "fetch"]
        ELSE IF p = "fetch"
        THEN [c EXCEPT !.memory[t] = c.store[s], !.pc[t] = "embed"]
        ELSE IF p = "embed"
        THEN [c EXCEPT !.pc[t] = IF ok THEN "search" ELSE "done"]
        ELSE IF p = "search"
        THEN [c EXCEPT !.pc[t] = IF ok THEN "save_input" ELSE "done"]
        ELSE IF p = "save_input"
        THEN [c EXCEPT !.heap[m] = Append(c.heap[m], [role |-> "human", task |-> t]),
                       !.pc[t] = "save_output"]
        ELSE [c EXCEPT !.heap[m] = Append(c.heap[m], [role |-> "ai", task |-> t]),
                       !.pc[t] = "done"]

\* the event loop runs request t for one step: it can do so when no other
\* request holds the loop, and t keeps the loop until it returns or reaches
\* an await
Step(t, ok) ==
    /\ conc.pc[t] \in Positions
    /\ conc.running \in {0, t}
    /\ LET c == HandlerStep(conc, t, ok)
       IN  conc' = [c EXCEPT !.running =
                       IF c.pc[t] = "done" \/ conc.pc[t] \in AwaitPoints
                       THEN 0 ELSE t]
    /\ UNCHANGED <<blobs, next_key, vectors, memory_store, resp, ui>>

NextConcurrent ==
    \/ \E t \in Tasks, session_id \in Sessions : Arrive(t, session_id)
    \/ \E t \in Tasks, ok \in BOOLEAN : Step(t, ok)

SpecConcurrent == Init /\ [][NextConcurrent]_vars

\* ------------------------------------------------------- retriever factory
\* the chunk texts a keyword corpus is made of
Corpora ==
    UNION {[1..n -> {FA.chunks[1], FB.chunks[1]}] : n \in 0..MaxBatch}

\* the collaborators of get_hybrid_retriever that can raise: as_retriever,
\* BM25Retriever.from_documents and the construction of the ensemble
RetrieverFaults == SUBSET {"semantic", "keyword", "ensemble"}

\* retriever.py lines 43-57: BM25Retriever.from_documents raises on an empty
\* corpus (the average document length divides by the corpus size), and
\* get_keyword_retriever re-raises what it catches
KeywordRaises(documents, faults) == documents = << >> \/ "keyword" \in faults

\* retriever.py lines 59-81: the first step that raises ends the call; the
\* except of line 79 logs and re-raises.  The result is the retriever
\* returned ("none" when the call raised) and the step that raised.
get_hybrid_retriever(documents, k, faults) ==
    IF "semantic" \in faults
    THEN [retriever |-> "none", errors |-> {"semantic"}]
    ELSE IF KeywordRaises(documents, faults)
    THEN [retriever |-> "none", errors |-> {"keyword"}]
    ELSE IF "ensemble" \in faults
    THEN [retriever |-> "none", errors |-> {"ensemble"}]
    ELSE [retriever |-> "hybrid", errors |-> {}]

\* a call of get_hybrid_retriever(documents, k)
HybridRetriever ==
    \E documents \in Corpora, k \in 1..TopK, faults \in RetrieverFaults :
        LET r == get_hybrid_retriever(documents, k, faults)
        IN  /\ resp' = [BlankResp EXCEPT !.op = "hybrid", !.documents = documents,
                            !.k = k, !.faults = faults,
                            !.retriever = r.retriever, !.errors = r.errors,
                            !.success = (r.errors = {})]
            /\ UNCHANGED <<blobs, next_key, vectors, memory_store, conc, ui>>

NextRetriever == HybridRetriever

SpecRetriever == Init /\ [][NextRetriever]_vars

\* ------------------------------------------------------ frontend sessions
\* list(chat_sessions.keys()): the ids in insertion order
session_keys(chat_sessions) ==
    [i \in DOMAIN chat_sessions |-> chat_sessions[i].id]

\* chat_sessions[session_id]["messages"]
MessagesOf(chat_sessions, session_id) ==
    LET i == CHOOSE i \in DOMAIN chat_sessions : chat_sessions[i].id = session_id
    IN  chat_sessions[i].messages

\* chat_sessions[session_id]["messages"] = messages
WithMessages(chat_sessions, session_id, messages) ==
    [i \in DOMAIN chat_sessions |->
        IF chat_sessions[i].id = session_id
        THEN [chat_sessions[i] EXCEPT !.messages = messages]
        ELSE chat_sessions[i]]

\* app.py lines 150-154: chat_sessions[new_session_id] = a session without
\* messages; an id the dict already has keeps its place
WithNewSession(chat_sessions, new_session_id) ==
    IF new_session_id \in Range(session_keys(chat_sessions))
    THEN WithMessages(chat_sessions, new_session_id, << >>)
    ELSE Append(chat_sessions, [id |-> new_session_id, messages |-> << >>])

\* del chat_sessions[session_id]
Without(chat_sessions, session_id) ==
    SelectSeq(chat_sessions, LAMBDA session : session.id # session_id)

\* messages in all the sessions
RECURSIVE TotalMessages(_)
TotalMessages(chat_sessions) ==
    IF chat_sessions = << >> THEN 0
    ELSE Len(Head(chat_sessions).messages) + TotalMessages(Tail(chat_sessions))

\* variant of DeleteOffered: the delete buttons are always rendered
DeleteOfferedAlways(chat_sessions) == TRUE

\* app.py lines 113 and 139: the delete buttons are rendered only while
\* there is more than one session
DeleteOffered(chat_sessions) == Len(chat_sessions) > 1

\* app.py lines 145-156: the New Chat button.  The id is the clock to the
\* second, so two clicks within one second give the same id.
NewChat ==
    \E now \in ui.now..MaxClock :
        /\ now >= 1
        /\ ui' = [ui EXCEPT
                    !.chat_sessions = WithNewSession(ui.chat_sessions, SessionId(now)),
                    !.current_session_id = SessionId(now),
                    !.now = now,
                    !.last = [op |-> "new", ok |-> TRUE, before |-> << >>]]
        /\ UNCHANGED <<blobs, next_key, vectors, memory_store, resp, conc>>

\* app.py lines 126-135: the button of a session that is not the current one
SwitchChat ==
    \E session_id \in Range(session_keys(ui.chat_sessions)) :
        /\ session_id # ui.current_session_id
        /\ ui' = [ui EXCEPT !.current_session_id = session_id,
                            !.last = [op |-> "switch", ok |-> TRUE, before |-> << >>]]
        /\ UNCHANGED <<blobs, next_key, vectors, memory_store, resp, conc>>

\* app.py lines 113-121 (the current session) and 139-142 (another one)
DeleteChat ==
    \E session_id \in Range(session_keys(ui.chat_sessions)) :
        LET remaining_sessions == Without(ui.chat_sessions, session_id)
        IN  /\ DeleteOffered(ui.chat_sessions)
            /\ ui' = [ui EXCEPT
                        !.chat_sessions = remaining_sessions,
                        !.current_session_id =
                            IF session_id # ui.current_session_id
                            THEN ui.current_session_id
                            ELSE IF remaining_sessions # << >>
                            THEN remaining_sessions[1].id
                            ELSE DefaultId,
                        !.last = [op |-> "delete", ok |-> TRUE, before |-> << >>]]
            /\ UNCHANGED <<blobs, next_key, vectors, memory_store, resp, conc>>

\* variant of AfterFailedChat: the user message stays in the list
AfterFailedChatKept(messages) == messages

\* chat_interface.py lines 384-389: the user message is popped again when
\* the chat call raised
AfterFailedChat(messages) ==
    IF messages # << >> /\ messages[Len(messages)].role = "user"
    THEN SubSeq(messages, 1, Len(messages) - 1)
    ELSE messages

\* chat_interface.py lines 355-393: a submitted message; ok tells whether
\* api_client.chat returned or raised.  Line 26 has already read
\* chat_sessions[current_session_id], so the form is rendered only when
\* that key exists.
Submit(ok) ==
    LET before == MessagesOf(ui.chat_sessions, ui.current_session_id)
        sent == Append(before, [role |-> "user"])
        after == IF ok THEN Append(sent, [role |-> "assistant"])
                 ELSE AfterFailedChat(sent)
    IN  /\ ui.current_session_id \in Range(session_keys(ui.chat_sessions))
        /\ ok => TotalMessages(ui.chat_sessions) < 2 * MaxSubmits
        /\ ui' = [ui EXCEPT
                    !.chat_sessions =
                        WithMessages(ui.chat_sessions, ui.current_session_id, after),
                    !.last = [op |-> "submit", ok |-> ok, before |-> before]]
        /\ UNCHANGED <<blobs, next_key, vectors, memory_store, resp, conc>>

NextFrontend ==
    \/ NewChat
    \/ SwitchChat
    \/ DeleteChat
    \/ \E ok \in BOOLEAN : Submit(ok)

SpecFrontend == Init /\ [][NextFrontend]_vars

\* ------------------------------------------------------------------ claims
\* the last request was a chat whose vector search returned
Searched == resp.op = "chat" /\ resp.errors \cap {"embed", "search"} = {}

\* the last request was a chat that built a prompt and returned an answer
Generated == resp.op = "chat" /\ resp.status = 200 /\ resp.llm_calls > 0

\* the number of query keywords found in the text as stored, without
\* lowercasing it
RawKeywordMatches(query_text, text) ==
    LET kws == query_keywords(query_text)
    IN  Cardinality({i \in DOMAIN kws : Contains(kws[i], text)})

\* C1 as stated: a candidate whose text (as stored) contains none of the
\* lowercased query keywords and whose score is <= 0.7 is neither cited nor
\* part of the context.
C1_AsStated ==
    Searched =>
        \A i \in DOMAIN resp.matches :
            LET m == resp.matches[i]
            IN  (RawKeywordMatches(resp.query, m.text) = 0 /\ m.score <= ScoreThreshold)
                    => /\ m \notin Range(resp.sources)
                       /\ m.text \notin Range(resp.contexts)

\* C1 amended: a candidate whose LOWERCASED text contains none of the
\* lowercased query keywords and whose score is <= 0.7 is neither cited nor
\* part of the context passed to generation.
C1_LowScoreNoKeywordExcluded ==
    Searched =>
        \A i \in DOMAIN resp.matches :
            LET m == resp.matches[i]
            IN  (keyword_matches(resp.query, m.text) = 0 /\ m.score <= ScoreThreshold)
                    => /\ m \notin Range(resp.sources)
                       /\ m.text \notin Range(resp.contexts)

\* a chat answered by generation with a citation, one of whose candidates had
\* no keyword and a score of 0.7 and was left out
C1_Witness ==
    /\ Generated
    /\ resp.sources # << >>
    /\ \E i \in DOMAIN resp.matches :
          /\ keyword_matches(resp.query, resp.matches[i].text) = 0
          /\ resp.matches[i].score = ScoreThreshold
          /\ resp.matches[i].text \notin Range(resp.contexts)

\* C2 as stated: a candidate with score > 0.7 and no keyword overlap is among
\* the returned citations, whatever was retrieved with it.
C2_AsStated ==
    Generated =>
        \A i \in DOMAIN resp.matches :
            LET m == resp.matches[i]
            IN  (keyword_matches(resp.query, m.text) = 0 /\ m.score > ScoreThreshold)
                    => m \in Range(resp.sources)

\* C2 amended: a candidate with score > 0.7 and no keyword overlap passes
\* the inclusion rule, so its text is part of the context passed to
\* generation; it is the (single) returned citation when no retrieved
\* candidate has a keyword match and it comes first in the retrieval order.
C2_HighScoreIncluded ==
    Generated =>
        \A i \in DOMAIN resp.matches :
            LET m == resp.matches[i]
            IN  (keyword_matches(resp.query, m.text) = 0 /\ m.score > ScoreThreshold)
                    => /\ m.text \in Range(resp.contexts)
                       /\ ( /\ i = 1
                            /\ \A j \in DOMAIN resp.matches :
                                  keyword_matches(resp.query, resp.matches[j].text) = 0 )
                             => resp.sources = <<m>>

\* a chat with several candidates, none with a keyword, whose citation is a
\* candidate with score > 0.7
C2_Witness ==
    /\ Generated
    /\ Len(resp.matches) >= 2
    /\ \A j \in DOMAIN resp.matches :
          keyword_matches(resp.query, resp.matches[j].text) = 0
    /\ resp.matches[1].score > ScoreThreshold
    /\ resp.sources = <<resp.matches[1]>>

\* C3: a reset request whose confirm flag is not true is answered with
\* status 400 and deletes nothing: the stored blobs and the indexed vectors
\* are the same after the request as before it.
C3_UnconfirmedResetRefused ==
    [][(resp'.op = "reset" /\ ~resp'.confirm)
         => (resp'.status = 400 /\ blobs' = blobs /\ vectors' = vectors)]_vars

\* an unconfirmed reset was refused while blobs and vectors were stored
C3_Witness ==
    /\ resp.op = "reset" /\ ~resp.confirm /\ resp.status = 400
    /\ blobs # {} /\ vectors # {}

\* C4: after two documents are uploaded and one of them is deleted by its
\* storage key with a success response, the index holds no vector whose
\* metadata references that key.
C4_DeletedKeyLeavesIndex ==
    ( /\ resp.op = "delete" /\ resp.success
      /\ \E v \in vectors : v.s3_key # resp.key )
        => \A v \in vectors : v.s3_key # resp.key

\* C5: when the blob deletion of a delete request succeeds and the vector
\* deletion step raises, the request is still answered with success = true.
C5_VectorFailureNotFatal ==
    (resp.op = "delete" /\ "s3" \notin resp.errors /\ "pinecone" \in resp.errors)
        => (resp.status = 200 /\ resp.success)

\* a delete removed the blob of an uploaded document, its vector step raised
\* and the answer is a success
C5_Witness ==
    /\ resp.op = "delete" /\ resp.errors = {"pinecone"} /\ resp.success
    /\ resp.key < next_key /\ resp.key \notin blobs

\* C6: a delete request for a storage key that no vector of the index
\* references leaves the index unchanged and, unless the blob store itself
\* raises, is answered with a success, not with an error.
C6_DeleteWithoutVectors ==
    [][(resp'.op = "delete" /\ \A v \in vectors : v.s3_key # resp'.key)
         => /\ vectors' = vectors
            /\ "s3" \notin resp'.errors => (resp'.status = 200 /\ resp'.success)]_vars

\* a successful delete for a key that was handed out earlier and has no
\* vector any more, while another document is still indexed
C6_Witness ==
    /\ resp.op = "delete" /\ resp.success /\ resp.key < next_key
    /\ vectors # {}
    /\ \A v \in vectors : v.s3_key # resp.key

\* C7: when the vector search of a chat request returns no match, the
\* request succeeds with the fixed not-found answer and no sources, and the
\* text generator is not invoked.
C7_NoMatchesNotFound ==
    (Searched /\ resp.matches = << >>)
        => /\ resp.status = 200
           /\ resp.answer = NOT_FOUND
           /\ resp.sources = << >>
           /\ resp.llm_calls = 0

\* a chat over an empty index answered with the fixed answer
C7_Witness ==
    /\ Searched /\ resp.matches = << >> /\ vectors = {}
    /\ resp.status = 200 /\ resp.answer = NOT_FOUND

\* C8: whenever ranking leaves no citation for a chat request, also when the
\* search returned matches and the inclusion rule removed them all, the
\* request returns the fixed not-found answer and the text generator is not
\* invoked.
C8_NoCitationsNotFound ==
    (Searched /\ RankedSources(resp.query, resp.matches) = << >>)
        => /\ resp.llm_calls = 0
           /\ resp.status = 200 => resp.answer = NOT_FOUND

\* C9: of two consecutive successful chat requests of one session, the
\* prompt of the second contains the exchange of the first (its query and
\* its answer).
C9_PromptHasPreviousTurn ==
    [][( /\ resp.op = "chat" /\ resp.status = 200
         /\ resp'.op = "chat" /\ resp'.status = 200 /\ resp'.llm_calls > 0
         /\ resp'.sid = resp.sid )
         => [input |-> resp.query, output |-> resp.answer] \in Range(resp'.history)]_vars

\* C10: a chat request that fails (answered with status 500 because the
\* embedding, the search or the generation raised) appends nothing to any
\* session memory.
C10_FailedChatKeepsMemory ==
    [][(resp'.op = "chat" /\ resp'.status = 500) => memory_store' = memory_store]_vars

\* a chat whose generation calls raised, in a session that has a saved
\* exchange
C10_Witness ==
    /\ resp.op = "chat" /\ resp.status = 500
    /\ resp.errors = {"chain_and_fallback"}
    /\ memory_store[resp.sid] # << >>

\* C11: for every session and after any sequence of chat requests, the
\* history rendered into the prompt of a request is the last 5 exchanges
\* saved for that session (all of them when there are fewer), in the order in
\* which they were saved: the oldest ones are the ones left out.
C11_HistoryIsLastFive ==
    [][(resp'.op = "chat" /\ resp'.llm_calls > 0)
         => LET mem == memory_store[resp'.sid]
                h == resp'.history
                n == IF Len(mem) < 5 THEN Len(mem) ELSE 5
            IN  /\ Len(h) = n
                /\ \A i \in 1..n : h[i] = mem[Len(mem) - n + i]]_vars

\* a prompt was built in a session that had saved more than 5 exchanges, the
\* oldest of which differs from the oldest one rendered
C11_Witness ==
    /\ resp.op = "chat" /\ resp.llm_calls > 0
    /\ Len(resp.history) = 5
    /\ Len(memory_store[resp.sid]) > 5
    /\ memory_store[resp.sid][1] # resp.history[1]

\* app/models/chat.py line 6: the retriever types a chat request may name
SupportedRetrieverTypes == {"semantic", "keyword", "hybrid"}

\* C12: a chat request that names a retriever type outside {semantic,
\* keyword, hybrid} is answered with a client error (a 4xx status) and
\* causes no embedding call, no search call and no generation call.
C12_UnsupportedRetrieverRejected ==
    ( /\ resp.op = "chat"
      /\ resp.retriever_type \notin SupportedRetrieverTypes \cup {""} )
        => /\ resp.status \in 400..499
           /\ resp.embed_calls = 0
           /\ resp.search_calls = 0
           /\ resp.llm_calls = 0

\* C13: an upload request containing a file whose name does not end in
\* ".pdf" is answered with a client error (a 4xx status), not with a server
\* error.
C13_NonPdfIsClientError ==
    (resp.op = "upload" /\ "not a PDF file" \in resp.errors)
        => resp.status \in 400..499

\* C14: when a document of an upload batch is rejected or a step of the
\* upload fails, the request leaves no partial state: the stored blobs and
\* the indexed vectors are the same after the failed request as before it.
C14_FailedUploadLeavesNothing ==
    [][(resp'.op = "upload" /\ resp'.status # 200)
         => (blobs' = blobs /\ vectors' = vectors)]_vars

\* C15: in a confirmed reset the blob step and the vector step are each
\* attempted whether or not the other raised.  When exactly one of them
\* fails the request still returns a structured result (status 200) with
\* success = false, the error of the failing step in the errors list and the
\* deletion count of the other step: after a failed blob step the index is
\* empty and the count of vectors is the number that was indexed; after a
\* failed vector step the count of files is the number of blobs removed.
C15_ResetStepsIndependent ==
    [][(resp'.op = "reset" /\ resp'.confirm /\ Cardinality(resp'.errors) = 1)
         => /\ resp'.status = 200
            /\ ~resp'.success
            /\ "s3" \in resp'.errors
                 => (vectors' = {} /\ resp'.n_vectors = Cardinality(vectors))
            /\ "pinecone" \in resp'.errors
                 => /\ vectors' = vectors
                    /\ blobs' \subseteq blobs
                    /\ resp'.n_files = Cardinality(blobs \ blobs')]_vars

\* a confirmed reset whose blob step raised emptied an index that held
\* vectors and reported their number with success = false
C15_Witness ==
    /\ resp.op = "reset" /\ resp.confirm /\ resp.errors = {"s3"}
    /\ resp.status = 200 /\ ~resp.success
    /\ resp.n_vectors > 0 /\ vectors = {}

C17_MemoryWriteBestEffort ==
    (resp.op = "chat" /\ "memory" \in resp.errors)
        => (resp.status = 200 /\ resp.answer \in {NOT_FOUND, GENERATED})

\* the candidate at position i of the last search passes the inclusion rule
Survives(i) ==
    \/ keyword_matches(resp.query, resp.matches[i].text) > 0
    \/ resp.matches[i].score > ScoreThreshold

\* C18: a chat request returns at most one citation, and when a candidate
\* survives the inclusion rule the citation is a survivor with the greatest
\* keyword match count; among the survivors with that count it is the one
\* that came first in the retrieval order.
C18_CitationIsFirstBest ==
    Generated =>
        /\ Len(resp.sources) <= 1
        /\ (\E i \in DOMAIN resp.matches : Survives(i))
             => \E i \in DOMAIN resp.matches :
                   /\ Survives(i)
                   /\ resp.sources = <<resp.matches[i]>>
                   /\ \A j \in DOMAIN resp.matches :
                         Survives(j) =>
                            LET ci == keyword_matches(resp.query, resp.matches[i].text)
                                cj == keyword_matches(resp.query, resp.matches[j].text)
                            IN  cj <= ci /\ (cj = ci => i <= j)

\* the citation is the second candidate retrieved: the first one survived
\* with a smaller count and the third one is tied with the second
C18_Witness ==
    /\ Generated
    /\ Len(resp.matches) = 3
    /\ resp.sources = <<resp.matches[2]>>
    /\ Survives(1)
    /\ keyword_matches(resp.query, resp.matches[3].text)
         = keyword_matches(resp.query, resp.matches[2].text)

\* C19: the context placed in the generation prompt is the texts of the
\* ranked citations in ranked order (keyword match count descending, ties in
\* retrieval order): the same sequence of chunks as ranking produces.
C19_ContextInRankedOrder ==
    Generated =>
        LET ranked == SortedSources(resp.query, Retrieved(resp.query, resp.matches))
        IN  resp.contexts = [i \in DOMAIN ranked |-> ranked[i].text]

HexDigits ==
    {"0", "1", "2", "3", "4", "5", "6", "7", "8", "9", "a", "b", "c", "d", "e", "f"}

\* the name with a leading token of 32 hexadecimal digits and the underscore
\* after it removed, when it starts with one
WithoutHexPrefix(name) ==
    IF /\ Len(name) > PrefixLen
       /\ name[PrefixLen + 1] = "_"
       /\ \A i \in 1..PrefixLen : name[i] \in HexDigits
    THEN SubSeq(name, PrefixLen + 2, Len(name))
    ELSE name

\* the candidates of the fallback chain of C20, in its order
NameCandidates(metadata) ==
    <<Get(metadata, "pdf_name", << >>),
      Get(metadata, "original_filename", << >>),
      WithoutHexPrefix(Basename(Get(metadata, "source", << >>))),
      WithoutHexPrefix(Basename(Get(metadata, "file_path", << >>)))>>

\* C20: the document name of a citation is the first usable one (not empty,
\* not 'Unknown') of: the pdf_name field, the original_filename field, the
\* basename of source, the basename of file_path, each basename with a
\* leading token of 32 hexadecimal characters and the underscore after it
\* removed (and only such a token is removed); when none is usable it is
\* 'Unknown Document'.  It is never empty and never 'Unknown'.
C20_NameByFallbackChain ==
    resp.op = "cite" =>
        LET c == NameCandidates(resp.metadata)
            usable == {i \in DOMAIN c : ~Unresolved(c[i])}
        IN  /\ resp.pdf_name \notin {<< >>, Unknown}
            /\ resp.pdf_name =
                 IF usable = {} THEN UnknownDocument
                 ELSE c[CHOOSE i \in usable : \A j \in usable : i <= j]

\* C21: a candidate whose page number is missing or does not parse as an
\* integer still becomes a citation (with a null page number) and never
\* makes the request fail: a searched request with such a candidate past the
\* inclusion rule, in which no collaborator raised, is answered with 200.
C21_BadPageNeverFails ==
    ( /\ Searched
      /\ resp.errors \subseteq {"page_number"}
      /\ \E i \in DOMAIN resp.matches :
            /\ Survives(i)
            /\ \/ resp.matches[i].page_number.kind = "missing"
               \/ \E k \in DOMAIN resp.matches[i].page_number.digits :
                     resp.matches[i].page_number.digits[k] \notin Digits )
        => resp.status = 200


\* the positions at which a request holds the object get_memory returned
Holding == {"embed", "search", "save_input", "save_output"}

\* C22: concurrent chat requests of one session share one memory object (the
\* object a request holds is the one memory_store has for its session, and
\* every object created is the one of some session), and the messages of
\* an object are whole exchanges in order: a human message is followed by
\* the ai message of the same request, the request that has not yet
\* written its ai message being the last one.
C22_SessionMemorySerialized ==
    /\ \A t \in Tasks :
          conc.pc[t] \in Holding => conc.memory[t] = conc.store[conc.sid[t]]
    /\ \A o \in DOMAIN conc.heap : \E s \in Sessions : conc.store[s] = o
    /\ \A o \in DOMAIN conc.heap :
          \A i \in DOMAIN conc.heap[o] :
              LET msg == conc.heap[o][i]
              IN  IF i % 2 = 1
                  THEN /\ msg.role = "human"
                       /\ IF i = Len(conc.heap[o])
                          THEN conc.pc[msg.task] = "save_output"
                          ELSE conc.heap[o][i + 1] = [role |-> "ai", task |-> msg.task]
                  ELSE msg.role = "ai"

\* two requests of one new session are in flight: one is between its two
\* appends while the other has arrived and not yet run
C22_Witness ==
    \E t, u \in Tasks :
        /\ t # u
        /\ conc.sid[t] = conc.sid[u]
        /\ conc.pc[t] = "save_output"
        /\ conc.pc[u] = "check"
        /\ Len(conc.heap[conc.memory[t]]) = 1


\* C23: no two chunks of the index have the same document name (file_name)
\* and the same chunk index (chunk_id).
C23_ChunkIndexUniquePerName ==
    \A v, w \in vectors :
        (v.file_name = w.file_name /\ v.chunk_id = w.chunk_id) => v = w


\* C24: in the result of a confirmed reset, s3_operation is "failed" exactly
\* when the blob step raised and "completed" exactly when it did not, and
\* pinecone_operation likewise for the vector step.
C24_StepStatusTellsFailure ==
    (resp.op = "reset" /\ resp.confirm /\ resp.status = 200) =>
        /\ resp.s3_operation = (IF "s3" \in resp.errors THEN "failed" ELSE "completed")
        /\ resp.pinecone_operation =
               (IF "pinecone" \in resp.errors THEN "failed" ELSE "completed")


\* C25: when the keyword corpus is empty or the keyword retriever cannot be
\* built, and the semantic retriever can, get_hybrid_retriever does not
\* raise and returns the semantic retriever.
C25_KeywordFailureDegrades ==
    ( /\ resp.op = "hybrid"
      /\ "semantic" \notin resp.faults
      /\ (resp.documents = << >> \/ "keyword" \in resp.faults) )
        => (resp.success /\ resp.retriever = "semantic")

\* C26: when a confirmed reset reports success, no object is left in the
\* bucket under the prefix and no record in the namespace.
C26_SuccessfulResetLeavesNothing ==
    (resp.op = "reset" /\ resp.confirm /\ resp.success) =>
        (blobs = {} /\ vectors = {})


\* C27: when an upload request returns, on success or with an error, none
\* of the temporary files it created is left on disk.
C27_NoTempFileLeft ==
    resp.op = "upload" => resp.temp_files = {}


\* C28: a delete request and a reset request leave every session's stored
\* turns as they were.
C28_DeletionKeepsMemory ==
    [][resp'.op \in {"delete", "reset"} => memory_store' = memory_store]_vars

\* a confirmed reset has emptied the index while session "default" still
\* holds its conversation
C28_Witness ==
    /\ resp.op = "reset"
    /\ resp.success
    /\ vectors = {}
    /\ memory_store["default"] # << >>


\* C29: in the sidebar, at least one chat session exists and
\* current_session_id is the key of an existing session.
C29_CurrentSessionExists ==
    /\ ui.chat_sessions # << >>
    /\ ui.current_session_id \in Range(session_keys(ui.chat_sessions))

\* the current session was deleted while another one existed, and the first
\* remaining session became the current one
C29_Witness ==
    /\ ui.last.op = "delete"
    /\ Len(ui.chat_sessions) = 1
    /\ ui.current_session_id = ui.chat_sessions[1].id
    /\ ui.current_session_id # DefaultId

====
